---- MODULE Spec2Model ----
(***************************************************************************)
(* State-machine model of yepsamii/shape-detector:                         *)
(*   src/shape_detector.py      the console program      (variant "cli")   *)
(*   src/shape_detector_web.py  the dashboard program    (variant "web")   *)
(* Time is the value of time.time() in whole seconds.  One iteration of    *)
(* the main loop is a chain of steps (pc), one per call the loop makes, so *)
(* that the clock and, in the web program, the socket handler (which runs  *)
(* in another thread, without a lock) can move between them.               *)
(* SpecStabilizer drives a DetectionStabilizer on its own.                 *)
(***************************************************************************)
EXTENDS Integers, Sequences, FiniteSets, TLC

\* ------------------------------------------------------------------ bounds
MaxTime == 14
MaxLines == 1
MaxCallTime == 8
MaxBytes == 1
MaxVertices == 7
MaxSendTime == 24
MaxActTime == 16

\* ------------------------------------------------------- program constants
window_size == 5
threshold == 4
cooldown == 6
detect_interval == 1
circle_time == 10
other_time == 20

Confirmable == {"circle", "triangle", "square"}
Labels == Confirmable \cup {"rectangle", "unknown"}
None == "None"
ZeroCounts == [s \in Confirmable |-> 0]
NoEvent == [shape |-> None, t |-> 0]
Idle == [moving |-> FALSE, until |-> 0]
NoContour ==
  [vertices |-> 0, aspect_ratio |-> 0, circularity |-> 0, extent |-> 0, solidity |-> 0]

\* Lines the actuator writes to the serial port, byte by byte.
\* "<ff>" is a byte that does not decode.
Notice ==
  <<"d", "e", "t", "e", "c", "t", "e", "d", " ", "-", " ",
    "p", "r", "o", "c", "e", "s", "s", "i", "n", "g">>

RawLines ==
  { <<"D", "O", "N", "E", "\n">>,
    <<"R", "E", "A", "D", "Y", "\r", "\n">>,
    <<"d", "o", "n", "e", "\n">>,
    <<" ", "D", "O", "N", "E", " ", "\r", "\n">>,
    <<"D", "O", "N", "E", "!", "\n">>,
    <<"D", "O", "<ff>", "N", "E", "\n">>,
    <<"\r", "\n">>,
    <<"S", " ">> \o Notice \o <<"\n">> }

\* What can be waiting in the serial input buffer when it is read: up to n lines.
RECURSIVE LineSeqs(_)
LineSeqs(n) ==
  IF n = 0 THEN {<<>>}
  ELSE LineSeqs(n - 1) \cup
       {Append(q, l) : q \in {x \in LineSeqs(n - 1) : Len(x) = n - 1}, l \in RawLines}

VARIABLES
  variant,             \* "cli" | "web": which program runs
  serial_connected,    \* web: serial.Serial(...) succeeded at start-up
  clock,               \* time.time()
  arduino_busy_until,
  stabilizer,          \* [recent_detections, last_confirmed, confirmation_time]
  last_detection_time,
  shape_counts,        \* web only
  current_shape,       \* web only
  wire,                \* bytes written to the serial port, in order
  pc,                  \* position of the main loop in its iteration
  current_time,        \* loop locals
  arduino_ready,
  remaining,
  shape,
  is_stable,
  sent,
  polled,              \* read_arduino_messages() was called in this iteration
  count_live,          \* this iteration's count has not been zeroed by a reset
  emitted,             \* web: events the loop emitted in this iteration
  rpc,                 \* web: position of handle_reset_counts
  reset_emitted,       \* web: events emitted by the running handle_reset_counts
  ok_sends,            \* history: successful sends of confirmations since reset
  last_send,           \* history: the last successful send not yet cancelled
  failed_send,         \* history: the confirmation whose send failed, if the last did
  last_conf,           \* history: the last confirmation
  conf_times,          \* history: time of the last confirmation of each label
  writers,             \* history: which contexts wrote counts / stabilizer
  lines_read,          \* SpecLink: the lines the last read_arduino_messages read
  contour,             \* SpecClassify: the properties computed from the contour
  classified,          \* what classify_shape_optimized returned in this attempt
  actuator,            \* SpecActuator: the arm, [moving, until]
  inbox                \* SpecActuator: lines the arm has sent, not yet read

locals == <<current_time, arduino_ready, remaining, shape, is_stable, sent, polled,
            count_live>>
hist == <<ok_sends, last_send, failed_send, last_conf, conf_times, writers>>
webstate == <<shape_counts, current_shape, emitted, rpc, reset_emitted>>
parts == <<lines_read, contour, classified, actuator, inbox>>
vars == <<variant, serial_connected, clock, arduino_busy_until, stabilizer,
          last_detection_time, wire, pc, locals, webstate, hist, parts>>

\* ------------------------------------------------------------- stabilizer
\* deque(maxlen=window_size).append
DequeAppend(q, x) ==
  IF Len(q) >= window_size THEN Append(Tail(q), x) ELSE Append(q, x)

\* list(q)[-n:]
LastN(q, n) == IF Len(q) <= n THEN q ELSE SubSeq(q, Len(q) - n + 1, Len(q))

\* list.count
Count(q, x) == Cardinality({i \in 1..Len(q) : q[i] = x})

NewStabilizer ==
  [recent_detections |-> <<>>, last_confirmed |-> None, confirmation_time |-> 0]

\* the cooldown compared the wrong way round
InCooldownInverted(st, detection, now) ==
  st.last_confirmed = detection /\ now - st.confirmation_time > cooldown

\* the cooldown still in force at exactly cooldown seconds
InCooldownInclusive(st, detection, now) ==
  st.last_confirmed = detection /\ now - st.confirmation_time <= cooldown

InCooldown(st, detection, now) ==
  st.last_confirmed = detection /\ now - st.confirmation_time < cooldown

\* the label counted over the whole window
ThresholdMetWholeWindow(q, detection) ==
  /\ Len(q) >= threshold
  /\ Count(q, detection) >= threshold

\* the threshold off by one
ThresholdMetEarly(q, detection) ==
  /\ Len(q) >= threshold - 1
  /\ Count(LastN(q, threshold - 1), detection) >= threshold - 1

ThresholdMet(q, detection) ==
  /\ Len(q) >= threshold
  /\ Count(LastN(q, threshold), detection) >= threshold

\* DetectionStabilizer.add_detection: the stabilizer after the call and the
\* first component of the returned pair.
add_detection(st, detection, now) ==
  LET q == DequeAppend(st.recent_detections, detection)
      appended == [st EXCEPT !.recent_detections = q]
  IN  IF InCooldown(st, detection, now)
        THEN [st |-> appended, stable |-> FALSE]
      ELSE IF ThresholdMet(q, detection)
        THEN [st |-> [appended EXCEPT !.last_confirmed = detection,
                                      !.confirmation_time = now],
              stable |-> TRUE]
      ELSE [st |-> appended, stable |-> FALSE]

\* a reset that forgets the last confirmation as well
stabilizer_reset_all(st) == NewStabilizer

\* DetectionStabilizer.reset
stabilizer_reset(st) == [st EXCEPT !.recent_detections = <<>>]

\* ---------------------------------------------------------- actuator link
\* the commands of square and triangle exchanged
command_map_swapped(s) ==
  CASE s = "triangle" -> "s" [] s = "circle" -> "c" [] s = "square" -> "t"

command_map(s) ==
  CASE s = "triangle" -> "t" [] s = "circle" -> "c" [] s = "square" -> "s"

processing_time(s) == IF s = "circle" THEN circle_time ELSE other_time

\* the actuator taken for ready at all times
is_arduino_ready_always(now, busy_until) == TRUE

is_arduino_ready(now, busy_until) == now >= busy_until

Simulated == variant = "web" /\ ~serial_connected

IsSpace(c) == c \in {" ", "\t", "\n", "\r"}

RECURSIVE LStrip(_)
LStrip(s) == IF s # <<>> /\ IsSpace(Head(s)) THEN LStrip(Tail(s)) ELSE s

RECURSIVE RStrip(_)
RStrip(s) ==
  IF s # <<>> /\ IsSpace(s[Len(s)]) THEN RStrip(SubSeq(s, 1, Len(s) - 1)) ELSE s

\* str.strip
Strip(s) == RStrip(LStrip(s))

\* bytes.decode(errors="ignore")
Decode(line) == SelectSeq(line, LAMBDA c : c # "<ff>")

\* the status words compared without regard to case
IsCompletionAnyCase(line) ==
  LET msg == Strip(Decode(line))
  IN  msg # <<>> /\ (msg \in {<<"D", "O", "N", "E">>, <<"d", "o", "n", "e">>,
                              <<"R", "E", "A", "D", "Y">>})

IsCompletion(line) ==
  LET msg == Strip(Decode(line))
  IN  msg # <<>> /\ (msg = <<"D", "O", "N", "E">> \/ msg = <<"R", "E", "A", "D", "Y">>)

\* read_arduino_messages over the lines it reads before it returns
CompletionRead(lines) == \E i \in 1..Len(lines) : IsCompletion(lines[i])

BusyAfterRead(lines, busy_until) == IF CompletionRead(lines) THEN 0 ELSE busy_until

PolledLines == LineSeqs(MaxLines)

\* One sequence of lines for each thing a read can do to the program's state.
PollCases ==
  {CHOOSE lines \in PolledLines : CompletionRead(lines) = done :
     done \in {CompletionRead(lines) : lines \in PolledLines}}

\* ------------------------------------------------------------------- Init
Init ==
  /\ variant \in {"cli", "web"}
  /\ serial_connected \in (IF variant = "cli" THEN {TRUE} ELSE BOOLEAN)
  /\ clock = detect_interval + 1
  /\ arduino_busy_until = 0
  /\ stabilizer = NewStabilizer
  /\ last_detection_time = 0
  /\ shape_counts = ZeroCounts
  /\ current_shape = "none"
  /\ wire = <<>>
  /\ pc = "frame"
  /\ current_time = 0
  /\ arduino_ready = FALSE
  /\ remaining = 0
  /\ shape = None
  /\ is_stable = FALSE
  /\ sent = None
  /\ polled = FALSE
  /\ count_live = FALSE
  /\ emitted = <<>>
  /\ rpc = "idle"
  /\ reset_emitted = <<>>
  /\ ok_sends = ZeroCounts
  /\ last_send = NoEvent
  /\ failed_send = NoEvent
  /\ last_conf = NoEvent
  /\ conf_times = [s \in Confirmable |-> -1]
  /\ writers = [counts |-> {}, stab |-> {}]
  /\ lines_read = <<>>
  /\ contour = NoContour
  /\ actuator = Idle
  /\ inbox = <<>>
  /\ classified = None

\* ------------------------------------------------------ the main loop
\* ret, frame = cap.read(); current_time = time.time(); read_arduino_messages().
\* read_arduino_messages reads the lines waiting in the input buffer, an input
\* of the step (SpecLink reads every sequence of lines, here one per outcome).  (When the port raises, the error is dropped and the lines not
\* yet read stay in the buffer: the same as their arriving after this call.)
ReadFrame ==
  /\ pc = "frame"
  /\ \E ret \in BOOLEAN :
       IF ret
         THEN /\ current_time' = clock
              /\ polled' = TRUE
              /\ pc' = "ready"
              /\ IF Simulated
                   THEN UNCHANGED <<arduino_busy_until, last_send>>
                   ELSE \E lines \in PollCases :
                          /\ arduino_busy_until' =
                               BusyAfterRead(lines, arduino_busy_until)
                          /\ last_send' = IF CompletionRead(lines)
                                            THEN NoEvent ELSE last_send
         ELSE /\ pc' = IF variant = "cli" THEN "stopped" ELSE "frame"
              /\ UNCHANGED <<current_time, polled, arduino_busy_until, last_send>>
  /\ UNCHANGED <<parts, variant, serial_connected, clock, stabilizer, last_detection_time,
                 wire, arduino_ready, remaining, shape, is_stable, sent, count_live,
                 webstate, ok_sends, failed_send, last_conf, conf_times, writers>>

\* the detection attempt not gated on arduino_ready
CheckReadyNoGate ==
  /\ pc = "ready"
  /\ arduino_ready' = is_arduino_ready(clock, arduino_busy_until)
  /\ pc' = "detect"
  /\ UNCHANGED <<parts, variant, serial_connected, clock, arduino_busy_until, stabilizer,
                 last_detection_time, wire, current_time, remaining, shape,
                 is_stable, sent, polled, count_live, webstate, hist>>

\* arduino_ready = is_arduino_ready()
CheckReady ==
  /\ pc = "ready"
  /\ arduino_ready' = is_arduino_ready(clock, arduino_busy_until)
  /\ pc' = IF arduino_ready' THEN "detect" ELSE "busy"
  /\ UNCHANGED <<parts, variant, serial_connected, clock, arduino_busy_until, stabilizer,
                 last_detection_time, wire, current_time, remaining, shape,
                 is_stable, sent, polled, count_live, webstate, hist>>

\* the busy branch taking the tick for a detection attempt
ShowBusyStamps ==
  /\ pc = "busy"
  /\ remaining' = arduino_busy_until - current_time
  /\ last_detection_time' = current_time
  /\ pc' = "end"
  /\ UNCHANGED <<parts, variant, serial_connected, clock, arduino_busy_until, stabilizer,
                 wire, current_time, arduino_ready, shape,
                 is_stable, sent, polled, count_live, webstate, hist>>

\* remaining = arduino_busy_until - current_time
ShowBusy ==
  /\ pc = "busy"
  /\ remaining' = arduino_busy_until - current_time
  /\ pc' = "end"
  /\ UNCHANGED <<parts, variant, serial_connected, clock, arduino_busy_until, stabilizer,
                 last_detection_time, wire, current_time, arduino_ready, shape,
                 is_stable, sent, polled, count_live, webstate, hist>>

\* an attempt in every ready tick
DetectNoInterval ==
  /\ pc = "detect"
  /\ IF current_time - last_detection_time >= 0
       THEN \E c \in Labels \cup {None} :
              IF c \in Confirmable
                THEN LET r == add_detection(stabilizer, c, clock)
                     IN  /\ classified' = c
                         /\ shape' = c
                         /\ stabilizer' = r.st
                         /\ is_stable' = r.stable
                         /\ writers' = [writers EXCEPT !.stab = @ \cup {"loop"}]
                         /\ IF r.stable
                              THEN /\ pc' = IF variant = "web" THEN "count" ELSE "send"
                                   /\ last_conf' = [shape |-> c, t |-> clock]
                                   /\ UNCHANGED last_detection_time
                              ELSE /\ pc' = "end"
                                   /\ last_detection_time' = current_time
                                   /\ UNCHANGED last_conf
                ELSE /\ classified' = c
                     /\ last_detection_time' = current_time
                     /\ pc' = "end"
                     /\ UNCHANGED <<shape, stabilizer, is_stable, writers, last_conf>>
       ELSE /\ pc' = "end"
            /\ UNCHANGED <<classified, shape, stabilizer, is_stable, writers,
                           last_conf, last_detection_time>>
  /\ UNCHANGED <<lines_read, contour, actuator, inbox, variant, serial_connected, clock,
                 arduino_busy_until, wire,
                 current_time, arduino_ready, remaining, sent, polled, count_live,
                 webstate, ok_sends, last_send, failed_send, conf_times>>

\* every classified label appended to the window
DetectObservesAll ==
  /\ pc = "detect"
  /\ IF current_time - last_detection_time > detect_interval
       THEN \E c \in Labels \cup {None} :
              IF c \in Confirmable
                THEN LET r == add_detection(stabilizer, c, clock)
                     IN  /\ classified' = c
                         /\ shape' = c
                         /\ stabilizer' = r.st
                         /\ is_stable' = r.stable
                         /\ writers' = [writers EXCEPT !.stab = @ \cup {"loop"}]
                         /\ IF r.stable
                              THEN /\ pc' = IF variant = "web" THEN "count" ELSE "send"
                                   /\ last_conf' = [shape |-> c, t |-> clock]
                                   /\ UNCHANGED last_detection_time
                              ELSE /\ pc' = "end"
                                   /\ last_detection_time' = current_time
                                   /\ UNCHANGED last_conf
                ELSE /\ classified' = c
                     /\ last_detection_time' = current_time
                     /\ pc' = "end"
                     /\ stabilizer' =
                          IF c = None THEN stabilizer
                          ELSE [stabilizer EXCEPT !.recent_detections =
                                                    DequeAppend(@, c)]
                     /\ UNCHANGED <<shape, is_stable, writers, last_conf>>
       ELSE /\ pc' = "end"
            /\ UNCHANGED <<classified, shape, stabilizer, is_stable, writers,
                           last_conf, last_detection_time>>
  /\ UNCHANGED <<lines_read, contour, actuator, inbox, variant, serial_connected, clock,
                 arduino_busy_until, wire,
                 current_time, arduino_ready, remaining, sent, polled, count_live,
                 webstate, ok_sends, last_send, failed_send, conf_times>>

\* The detection attempt: the interval test, the contours of the frame, the
\* classification c of the largest one (None: no contour passes the area
\* filter) and, for a confirmable shape,
\* is_stable, confirmed_shape = stabilizer.add_detection(shape)
Detect ==
  /\ pc = "detect"
  /\ IF current_time - last_detection_time > detect_interval
       THEN \E c \in Labels \cup {None} :
              IF c \in Confirmable
                THEN LET r == add_detection(stabilizer, c, clock)
                     IN  /\ classified' = c
                         /\ shape' = c
                         /\ stabilizer' = r.st
                         /\ is_stable' = r.stable
                         /\ writers' = [writers EXCEPT !.stab = @ \cup {"loop"}]
                         /\ IF r.stable
                              THEN /\ pc' = IF variant = "web" THEN "count" ELSE "send"
                                   /\ last_conf' = [shape |-> c, t |-> clock]
                                   /\ UNCHANGED last_detection_time
                              ELSE /\ pc' = "end"
                                   /\ last_detection_time' = current_time
                                   /\ UNCHANGED last_conf
                ELSE /\ classified' = c
                     /\ last_detection_time' = current_time
                     /\ pc' = "end"
                     /\ UNCHANGED <<shape, stabilizer, is_stable, writers, last_conf>>
       ELSE /\ pc' = "end"
            /\ UNCHANGED <<classified, shape, stabilizer, is_stable, writers,
                           last_conf, last_detection_time>>
  /\ UNCHANGED <<lines_read, contour, actuator, inbox, variant, serial_connected, clock,
                 arduino_busy_until, wire,
                 current_time, arduino_ready, remaining, sent, polled, count_live,
                 webstate, ok_sends, last_send, failed_send, conf_times>>

CountUpdate(counts) == [name |-> "count_update", data |-> counts]
ShapeUpdate(s) == [name |-> "shape_update", data |-> [shape |-> s]]

\* update_shape_count with an emit_updates that sends count_update only
UpdateShapeCountNoShapeUpdate ==
  /\ pc = "count"
  /\ shape_counts' = [shape_counts EXCEPT ![shape] = @ + 1]
  /\ current_shape' = shape
  /\ emitted' = emitted \o <<CountUpdate(shape_counts')>>
  /\ count_live' = TRUE
  /\ writers' = [writers EXCEPT !.counts = @ \cup {"loop"}]
  /\ pc' = "send"
  /\ UNCHANGED <<parts, variant, serial_connected, clock, arduino_busy_until, stabilizer,
                 last_detection_time, wire, current_time, arduino_ready,
                 remaining, shape, is_stable, sent, polled, rpc, reset_emitted,
                 ok_sends, last_send, failed_send, last_conf, conf_times>>

\* update_shape_count(confirmed_shape); its emit_updates task is run at once
UpdateShapeCount ==
  /\ pc = "count"
  /\ shape_counts' = [shape_counts EXCEPT ![shape] = @ + 1]
  /\ current_shape' = shape
  /\ emitted' = emitted \o <<CountUpdate(shape_counts'), ShapeUpdate(shape)>>
  /\ count_live' = TRUE
  /\ writers' = [writers EXCEPT !.counts = @ \cup {"loop"}]
  /\ pc' = "send"
  /\ UNCHANGED <<parts, variant, serial_connected, clock, arduino_busy_until, stabilizer,
                 last_detection_time, wire, current_time, arduino_ready,
                 remaining, shape, is_stable, sent, polled, rpc, reset_emitted,
                 ok_sends, last_send, failed_send, last_conf, conf_times>>

\* busy_until set before the flush instead of after it
send_busy_before_flush(s, raises, now, busy_until, out) ==
  IF Simulated
    THEN [wire |-> out, busy_until |-> busy_until, ok |-> TRUE]
  ELSE IF raises \in {"reset_input_buffer", "reset_output_buffer", "write"}
    THEN [wire |-> out, busy_until |-> busy_until, ok |-> FALSE]
  ELSE IF raises = "flush"
    THEN [wire |-> Append(out, command_map(s)),
          busy_until |-> now + processing_time(s), ok |-> FALSE]
  ELSE [wire |-> Append(out, command_map(s)),
        busy_until |-> now + processing_time(s), ok |-> TRUE]

\* send_to_arduino_simple(shape) when the call "raises" (or "none"): the
\* bytes on the wire, busy_until and the value returned.  (The input buffer
\* it empties holds lines that were never read: they leave no trace.)
send_to_arduino_simple(s, raises, now, busy_until, out) ==
  IF Simulated
    THEN [wire |-> out, busy_until |-> busy_until, ok |-> TRUE]
  ELSE IF raises \in {"reset_input_buffer", "reset_output_buffer", "write"}
    THEN [wire |-> out, busy_until |-> busy_until, ok |-> FALSE]
  ELSE IF raises = "flush"
    THEN [wire |-> Append(out, command_map(s)), busy_until |-> busy_until,
          ok |-> FALSE]
  ELSE [wire |-> Append(out, command_map(s)),
        busy_until |-> now + processing_time(s), ok |-> TRUE]

SendFaults == {"none", "reset_input_buffer", "reset_output_buffer", "write", "flush"}

\* the stabilizer reset whatever send_to_arduino_simple returns
SendResetAlways ==
  /\ pc = "send"
  /\ \E raises \in SendFaults :
       LET r == send_to_arduino_simple(shape, raises, clock, arduino_busy_until, wire)
       IN  /\ wire' = r.wire
           /\ arduino_busy_until' = r.busy_until
           /\ sent' = IF r.ok THEN "ok" ELSE "fail"
           /\ stabilizer' = stabilizer_reset(stabilizer)
           /\ last_send' = IF r.ok THEN [shape |-> shape, t |-> clock] ELSE last_send
           /\ failed_send' = IF r.ok THEN NoEvent ELSE last_conf
           /\ ok_sends' = IF r.ok /\ (variant = "cli" \/ count_live)
                            THEN [ok_sends EXCEPT ![shape] = @ + 1]
                            ELSE ok_sends
  /\ last_detection_time' = current_time
  /\ pc' = "end"
  /\ UNCHANGED <<parts, variant, serial_connected, clock, current_time, arduino_ready,
                 remaining, shape, is_stable, polled, count_live, webstate,
                 last_conf, conf_times, writers>>

\* if send_to_arduino_simple(confirmed_shape):
\*     stabilizer.reset(); last_detection_time = current_time
\* and then the attempt's own last_detection_time = current_time
Send ==
  /\ pc = "send"
  /\ \E raises \in SendFaults :
       LET r == send_to_arduino_simple(shape, raises, clock, arduino_busy_until, wire)
       IN  /\ wire' = r.wire
           /\ arduino_busy_until' = r.busy_until
           /\ sent' = IF r.ok THEN "ok" ELSE "fail"
           /\ stabilizer' = IF r.ok THEN stabilizer_reset(stabilizer) ELSE stabilizer
           /\ last_send' = IF r.ok THEN [shape |-> shape, t |-> clock] ELSE last_send
           /\ failed_send' = IF r.ok THEN NoEvent ELSE last_conf
           /\ ok_sends' = IF r.ok /\ (variant = "cli" \/ count_live)
                            THEN [ok_sends EXCEPT ![shape] = @ + 1]
                            ELSE ok_sends
  /\ last_detection_time' = current_time
  /\ pc' = "end"
  /\ UNCHANGED <<parts, variant, serial_connected, clock, current_time, arduino_ready,
                 remaining, shape, is_stable, polled, count_live, webstate,
                 last_conf, conf_times, writers>>

ClearLocals ==
  /\ current_time' = 0
  /\ arduino_ready' = FALSE
  /\ remaining' = 0
  /\ shape' = None
  /\ is_stable' = FALSE
  /\ sent' = None
  /\ polled' = FALSE
  /\ count_live' = FALSE

\* cli: key = cv2.waitKey(1): 'r' resets, 'q'/ESC leaves the loop.
\* web: the frame is published and the loop sleeps.
EndIteration ==
  /\ pc = "end"
  /\ ClearLocals
  /\ IF variant = "cli"
       THEN \E key \in {"none", "r", "q"} :
              /\ arduino_busy_until' = IF key = "r" THEN 0 ELSE arduino_busy_until
              /\ stabilizer' = IF key = "r" THEN stabilizer_reset(stabilizer)
                                            ELSE stabilizer
              /\ last_send' = IF key = "r" THEN NoEvent ELSE last_send
              /\ pc' = IF key = "q" THEN "stopped" ELSE "frame"
       ELSE /\ pc' = "frame"
            /\ UNCHANGED <<arduino_busy_until, stabilizer, last_send>>
  /\ emitted' = <<>>
  /\ classified' = None
  /\ UNCHANGED <<lines_read, contour, actuator, inbox, variant, serial_connected, clock,
                 last_detection_time, wire,
                 shape_counts, current_shape, rpc, reset_emitted, ok_sends, failed_send,
                 last_conf, conf_times, writers>>

\* ------------------------------------------------ web: background contexts
\* handle_reset_counts, in four steps.
\* shape_counts = {...}; current_shape = "none"
ResetCounts ==
  /\ variant = "web"
  /\ rpc = "idle"
  /\ shape_counts' = ZeroCounts
  /\ current_shape' = "none"
  /\ rpc' = "busy"
  /\ count_live' = FALSE
  /\ ok_sends' = ZeroCounts
  /\ writers' = [writers EXCEPT !.counts = @ \cup {"handler"}]
  /\ UNCHANGED <<parts, variant, serial_connected, clock, arduino_busy_until, stabilizer,
                 last_detection_time, wire, pc, current_time, arduino_ready,
                 remaining, shape, is_stable, sent, polled, emitted,
                 reset_emitted, last_send, failed_send, last_conf, conf_times>>

\* arduino_busy_until = 0; stabilizer.reset()
ResetBusy ==
  /\ rpc = "busy"
  /\ arduino_busy_until' = 0
  /\ stabilizer' = stabilizer_reset(stabilizer)
  /\ last_send' = NoEvent
  /\ writers' = [writers EXCEPT !.stab = @ \cup {"handler"}]
  /\ rpc' = "emit"
  /\ UNCHANGED <<parts, variant, serial_connected, clock, last_detection_time, wire,
                 pc, locals, shape_counts, current_shape, emitted, reset_emitted,
                 ok_sends, failed_send, last_conf, conf_times>>

\* socketio.emit('count_update', shape_counts); socketio.emit('shape_update', ...)
ResetEmit ==
  /\ rpc = "emit"
  /\ reset_emitted' = <<CountUpdate(shape_counts), ShapeUpdate("none")>>
  /\ rpc' = "done"
  /\ UNCHANGED <<parts, variant, serial_connected, clock, arduino_busy_until, stabilizer,
                 last_detection_time, wire, pc, locals, shape_counts,
                 current_shape, emitted, hist>>

ResetReturn ==
  /\ rpc = "done"
  /\ reset_emitted' = <<>>
  /\ rpc' = "idle"
  /\ UNCHANGED <<parts, variant, serial_connected, clock, arduino_busy_until, stabilizer,
                 last_detection_time, wire, pc, locals, shape_counts,
                 current_shape, emitted, hist>>

\* ------------------------------------------------------------ environment
\* Time passes.  Only ReadFrame, CheckReady, Detect and Send read the clock,
\* so it is enough to let it move right before one of them.
Advance ==
  /\ pc \in {"frame", "ready", "detect", "send"}
  /\ clock < MaxTime
  /\ clock' = clock + 1
  /\ UNCHANGED <<parts, variant, serial_connected, arduino_busy_until, stabilizer,
                 last_detection_time, wire, pc, locals, webstate, hist>>

Next ==
  \/ ReadFrame
  \/ CheckReady
  \/ ShowBusy
  \/ Detect
  \/ UpdateShapeCount
  \/ Send
  \/ EndIteration
  \/ ResetCounts
  \/ ResetBusy
  \/ ResetEmit
  \/ ResetReturn
  \/ Advance

Spec == Init /\ [][Next]_vars

\* ------------------------------------------ the stabilizer on its own
\* A DetectionStabilizer driven by any caller: add_detection with any shape
\* the programs pass to it, reset, at any times.
\* is_stable, confirmed_shape = stabilizer.add_detection(shape)
Observe ==
  /\ \E detection \in Confirmable :
       LET r == add_detection(stabilizer, detection, clock)
       IN  /\ shape' = detection
           /\ stabilizer' = r.st
           /\ is_stable' = r.stable
           /\ conf_times' = IF r.stable THEN [conf_times EXCEPT ![detection] = clock]
                                        ELSE conf_times
           /\ last_conf' = IF r.stable THEN [shape |-> detection, t |-> clock]
                                       ELSE last_conf
  /\ UNCHANGED <<parts, variant, serial_connected, clock, arduino_busy_until,
                 last_detection_time, wire, pc, current_time, arduino_ready, remaining,
                 sent, polled, count_live, webstate, ok_sends, last_send, failed_send,
                 writers>>

\* stabilizer.reset()
StabilizerReset ==
  /\ stabilizer' = stabilizer_reset(stabilizer)
  /\ shape' = None
  /\ is_stable' = FALSE
  /\ UNCHANGED <<parts, variant, serial_connected, clock, arduino_busy_until,
                 last_detection_time, wire, pc, current_time, arduino_ready, remaining,
                 sent, polled, count_live, webstate, hist>>

\* time.time() moves on between two calls
Tick ==
  /\ clock < MaxCallTime
  /\ clock' = clock + 1
  /\ UNCHANGED <<parts, variant, serial_connected, arduino_busy_until, stabilizer,
                 last_detection_time, wire, pc, locals, webstate, hist>>

InitStabilizer == Init /\ variant = "cli"

NextStabilizer ==
  \/ Observe
  \/ StabilizerReset
  \/ Tick

SpecStabilizer == InitStabilizer /\ [][NextStabilizer]_vars

\* ------------------------------------------ the actuator link on its own
\* send_to_arduino_simple and read_arduino_messages called by any caller, at
\* any times, with any lines waiting on the port.
\* read_arduino_messages()
LinkPoll ==
  /\ IF Simulated
       THEN /\ lines_read' = <<>>
            /\ UNCHANGED <<arduino_busy_until, last_send>>
       ELSE \E lines \in PolledLines :
              /\ lines_read' = lines
              /\ arduino_busy_until' = BusyAfterRead(lines, arduino_busy_until)
              /\ last_send' = IF CompletionRead(lines) THEN NoEvent ELSE last_send
  /\ shape' = None
  /\ sent' = None
  /\ UNCHANGED <<contour, classified, actuator, inbox, variant, serial_connected, clock, stabilizer,
                 last_detection_time, wire, pc, current_time, arduino_ready, remaining,
                 is_stable, polled, count_live, webstate, ok_sends, failed_send,
                 last_conf, conf_times, writers>>

\* send_to_arduino_simple(shape)
LinkSend ==
  /\ Len(wire) < MaxBytes
  /\ \E s \in Confirmable, raises \in SendFaults :
       LET r == send_to_arduino_simple(s, raises, clock, arduino_busy_until, wire)
       IN  /\ shape' = s
           /\ wire' = r.wire
           /\ arduino_busy_until' = r.busy_until
           /\ sent' = IF r.ok THEN "ok" ELSE "fail"
           /\ last_send' = IF r.ok THEN [shape |-> s, t |-> clock] ELSE last_send
  /\ lines_read' = <<>>
  /\ UNCHANGED <<contour, classified, actuator, inbox, variant, serial_connected, clock, stabilizer,
                 last_detection_time, pc, current_time, arduino_ready, remaining,
                 is_stable, polled, count_live, webstate, ok_sends, failed_send,
                 last_conf, conf_times, writers>>

NextLink ==
  \/ LinkPoll
  \/ LinkSend
  \/ Tick

SpecLink == Init /\ [][NextLink]_vars

\* ------------------------------------------ the classifier on its own
\* The descriptors classify_shape_optimized computes from a contour, the four
\* ratios in hundredths: a vertex count and values on both sides of every
\* threshold the rules compare them with.
VertexCounts == 3..MaxVertices
Extents == {24, 25, 29, 30, 50, 59, 60, 61, 69, 70, 71, 80, 85, 86, 95, 96}
AspectRatios == {39, 40, 69, 70, 74, 75, 79, 80, 100, 125, 126, 130, 131,
                 135, 136, 180, 181, 200, 201, 250, 251}
Circularities == {49, 50, 59, 60, 61, 70, 71, 75, 76, 79, 80}
Solidities == {69, 70, 80, 81, 85, 90}

Descriptors ==
  [vertices : VertexCounts, aspect_ratio : AspectRatios,
   circularity : Circularities, extent : Extents, solidity : Solidities]

\* the filter of poor shapes with "and" for "or"
poor_shape_both(d) == d.extent < 25 /\ d.solidity < 70

\* if extent < 0.25 or solidity < 0.7: return "unknown"
poor_shape(d) == d.extent < 25 \/ d.solidity < 70

\* the four-vertex rule tried before the additional triangle detection
classify_square_first(d) ==
  IF poor_shape(d) THEN "unknown"
  ELSE IF d.vertices = 3 /\ (30 <= d.extent /\ d.extent <= 85)
            /\ (40 <= d.aspect_ratio /\ d.aspect_ratio <= 200)
    THEN "triangle"
  ELSE IF d.vertices = 4 /\ (60 <= d.extent /\ d.extent <= 95)
            /\ (75 <= d.aspect_ratio /\ d.aspect_ratio <= 135)
    THEN "square"
  ELSE IF d.vertices = 4 /\ (60 <= d.extent /\ d.extent <= 95)
            /\ (40 <= d.aspect_ratio /\ d.aspect_ratio <= 250)
    THEN "rectangle"
  ELSE IF (d.vertices <= 4 /\ d.circularity < 60 /\ d.solidity > 80)
            /\ ((40 <= d.aspect_ratio /\ d.aspect_ratio <= 180) /\ d.extent < 70)
    THEN "triangle"
  ELSE IF (80 <= d.aspect_ratio /\ d.aspect_ratio <= 125)
            /\ d.extent > 70 /\ d.circularity < 80
    THEN "square"
  ELSE IF (d.vertices >= 6 \/ d.circularity > 70)
            /\ (d.circularity > 60 /\ d.solidity > 80)
    THEN "circle"
  ELSE IF d.circularity > 75
    THEN "circle"
  ELSE IF d.vertices <= 4 /\ (d.circularity < 50 /\ d.extent < 70)
    THEN "triangle"
  ELSE IF d.vertices <= 4 /\ ((70 <= d.aspect_ratio /\ d.aspect_ratio <= 130)
                               /\ d.extent > 60)
    THEN "square"
  ELSE "unknown"

\* classify_shape_optimized from its filter of poor shapes on: each "if" of
\* the code that returns, in the order of the code; an "if" whose inner test
\* fails falls through to the next one.
classify(d) ==
  IF poor_shape(d) THEN "unknown"
  ELSE IF d.vertices = 3 /\ (30 <= d.extent /\ d.extent <= 85)
            /\ (40 <= d.aspect_ratio /\ d.aspect_ratio <= 200)
    THEN "triangle"
  ELSE IF (d.vertices <= 4 /\ d.circularity < 60 /\ d.solidity > 80)
            /\ ((40 <= d.aspect_ratio /\ d.aspect_ratio <= 180) /\ d.extent < 70)
    THEN "triangle"
  ELSE IF d.vertices = 4 /\ (60 <= d.extent /\ d.extent <= 95)
            /\ (75 <= d.aspect_ratio /\ d.aspect_ratio <= 135)
    THEN "square"
  ELSE IF d.vertices = 4 /\ (60 <= d.extent /\ d.extent <= 95)
            /\ (40 <= d.aspect_ratio /\ d.aspect_ratio <= 250)
    THEN "rectangle"
  ELSE IF (80 <= d.aspect_ratio /\ d.aspect_ratio <= 125)
            /\ d.extent > 70 /\ d.circularity < 80
    THEN "square"
  ELSE IF (d.vertices >= 6 \/ d.circularity > 70)
            /\ (d.circularity > 60 /\ d.solidity > 80)
    THEN "circle"
  ELSE IF d.circularity > 75
    THEN "circle"
  ELSE IF d.vertices <= 4 /\ (d.circularity < 50 /\ d.extent < 70)
    THEN "triangle"
  ELSE IF d.vertices <= 4 /\ ((70 <= d.aspect_ratio /\ d.aspect_ratio <= 130)
                               /\ d.extent > 60)
    THEN "square"
  ELSE "unknown"

\* shape = classify_shape_optimized(largest_contour)
Classify ==
  /\ classified = None
  /\ classified' = classify(contour)
  /\ UNCHANGED <<lines_read, contour, actuator, inbox, variant, serial_connected, clock,
                 arduino_busy_until, stabilizer, last_detection_time, wire, pc,
                 locals, webstate, hist>>

\* a contour that passed the area filter, its descriptors computed
InitClassify ==
  /\ contour \in Descriptors
  /\ actuator = Idle
  /\ inbox = <<>>
  /\ classified = None
  /\ lines_read = <<>>
  /\ variant = "cli"
  /\ serial_connected = TRUE
  /\ clock = detect_interval + 1
  /\ arduino_busy_until = 0
  /\ stabilizer = NewStabilizer
  /\ last_detection_time = 0
  /\ shape_counts = ZeroCounts
  /\ current_shape = "none"
  /\ wire = <<>>
  /\ pc = "detect"
  /\ current_time = 0
  /\ arduino_ready = FALSE
  /\ remaining = 0
  /\ shape = None
  /\ is_stable = FALSE
  /\ sent = None
  /\ polled = FALSE
  /\ count_live = FALSE
  /\ emitted = <<>>
  /\ rpc = "idle"
  /\ reset_emitted = <<>>
  /\ ok_sends = ZeroCounts
  /\ last_send = NoEvent
  /\ failed_send = NoEvent
  /\ last_conf = NoEvent
  /\ conf_times = [s \in Confirmable |-> -1]
  /\ writers = [counts |-> {}, stab |-> {}]

NextClassify == Classify

SpecClassify == InitClassify /\ [][NextClassify]_vars

\* ------------------------------ the command-line loop over a longer time
\* The loop of the command-line program alone, long enough for the estimate
\* of a command to run out and a second confirmation to follow.  Time passes
\* between two ticks and between a confirmation and its send.
Elapse ==
  /\ pc \in {"frame", "send"}
  /\ clock < MaxSendTime
  /\ clock' = clock + 1
  /\ UNCHANGED <<parts, variant, serial_connected, arduino_busy_until, stabilizer,
                 last_detection_time, wire, pc, locals, webstate, hist>>

InitSends == Init /\ variant = "cli"

NextSends ==
  \/ ReadFrame
  \/ CheckReady
  \/ ShowBusy
  \/ Detect
  \/ Send
  \/ EndIteration
  \/ Elapse

SpecSends == InitSends /\ [][NextSends]_vars

\* ------------------------------ the command-line loop and the actuator
\* The loop of the command-line program with the arm at the other end of the
\* port: on a command byte the arm moves for a time no longer than the
\* estimate the program keeps for the command, then writes the line DONE.
\* Nobody presses the reset key.
DoneLine == <<"D", "O", "N", "E", "\n">>

\* the time a command takes: the estimate, or the estimate less its 2 s buffer
Durations(s) == {processing_time(s) - 2, processing_time(s)}

\* the loop's tick up to read_arduino_messages, which reads every line waiting
ReadFrameFromPort ==
  /\ pc = "frame"
  /\ \E ret \in BOOLEAN :
       IF ret
         THEN /\ current_time' = clock
              /\ polled' = TRUE
              /\ pc' = "ready"
              /\ arduino_busy_until' = BusyAfterRead(inbox, arduino_busy_until)
              /\ last_send' = IF CompletionRead(inbox) THEN NoEvent ELSE last_send
              /\ inbox' = <<>>
         ELSE /\ pc' = IF variant = "cli" THEN "stopped" ELSE "frame"
              /\ UNCHANGED <<current_time, polled, arduino_busy_until, last_send,
                             inbox>>
  /\ UNCHANGED <<lines_read, contour, classified, actuator, variant,
                 serial_connected, clock, stabilizer, last_detection_time,
                 wire, arduino_ready, remaining, shape, is_stable, sent, count_live,
                 webstate, ok_sends, failed_send, last_conf, conf_times, writers>>

\* the send of the loop: reset_input_buffer drops the lines waiting, and a
\* byte written reaches the arm, which starts to move
SendToActuator ==
  /\ pc = "send"
  /\ \E raises \in SendFaults :
       LET r == send_to_arduino_simple(shape, raises, clock, arduino_busy_until, wire)
       IN  /\ wire' = r.wire
           /\ arduino_busy_until' = r.busy_until
           /\ sent' = IF r.ok THEN "ok" ELSE "fail"
           /\ stabilizer' = IF r.ok THEN stabilizer_reset(stabilizer) ELSE stabilizer
           /\ last_send' = IF r.ok THEN [shape |-> shape, t |-> clock] ELSE last_send
           /\ failed_send' = IF r.ok THEN NoEvent ELSE last_conf
           /\ ok_sends' = IF r.ok /\ (variant = "cli" \/ count_live)
                            THEN [ok_sends EXCEPT ![shape] = @ + 1]
                            ELSE ok_sends
           /\ inbox' = IF raises = "reset_input_buffer" THEN inbox ELSE <<>>
           /\ IF r.wire # wire
                THEN \E d \in Durations(shape) :
                       actuator' = [moving |-> TRUE, until |-> clock + d]
                ELSE actuator' = actuator
  /\ last_detection_time' = current_time
  /\ pc' = "end"
  /\ UNCHANGED <<lines_read, contour, classified, variant, serial_connected, clock,
                 current_time, arduino_ready, remaining, shape, is_stable, polled,
                 count_live, webstate, last_conf, conf_times, writers>>

\* the arm has finished its movement and writes DONE
ActuatorDone ==
  /\ actuator.moving
  /\ clock >= actuator.until
  /\ actuator' = Idle
  /\ inbox' = Append(inbox, DoneLine)
  /\ UNCHANGED <<lines_read, contour, classified, variant, serial_connected, clock,
                 arduino_busy_until, stabilizer, last_detection_time, wire, pc,
                 locals, webstate, hist>>

\* the end of a tick in which the reset key is not pressed
EndIterationNoReset ==
  /\ pc = "end"
  /\ ClearLocals
  /\ \E key \in {"none", "q"} :
       pc' = IF key = "q" THEN "stopped" ELSE "frame"
  /\ emitted' = <<>>
  /\ classified' = None
  /\ UNCHANGED <<lines_read, contour, actuator, inbox, variant, serial_connected,
                 clock, arduino_busy_until, stabilizer, last_detection_time, wire,
                 shape_counts, current_shape, rpc, reset_emitted, hist>>

\* time passes, but not beyond the end of the arm's movement before the arm
\* has written its DONE
ElapseWithActuator ==
  /\ pc \in {"frame", "send"}
  /\ clock < MaxActTime
  /\ ~(actuator.moving /\ clock >= actuator.until)
  /\ clock' = clock + 1
  /\ UNCHANGED <<parts, variant, serial_connected, arduino_busy_until, stabilizer,
                 last_detection_time, wire, pc, locals, webstate, hist>>

InitActuator == Init /\ variant = "cli"

NextActuator ==
  \/ ReadFrameFromPort
  \/ CheckReady
  \/ ShowBusy
  \/ Detect
  \/ SendToActuator
  \/ EndIterationNoReset
  \/ ActuatorDone
  \/ ElapseWithActuator

SpecActuator == InitActuator /\ [][NextActuator]_vars

\* ------------------------------------------------------------ properties
AllSame(q, x) == \A i \in 1..Len(q) : q[i] = x

\* the trailing threshold entries of the window all equal x
TrailingAll(q, x) == Len(q) >= threshold /\ AllSame(LastN(q, threshold), x)

\* this step of SpecStabilizer is the call add_detection(x)
ObserveCall(x) ==
  /\ shape' = x
  /\ stabilizer'.recent_detections = DequeAppend(stabilizer.recent_detections, x)
  /\ clock' = clock

\* this step of Spec is a detection attempt that called add_detection(x)
DetectCall(x) ==
  /\ pc = "detect"
  /\ pc' # "detect"
  /\ shape' = x

\* this step of Spec is the call of send_to_arduino_simple
SendCall == pc = "send" /\ pc' = "end"

\* C1: in the web program, between two iterations of the loop, the count of
\* each shape equals the number of confirmations of that shape since the last
\* reset whose send returned success.
C1_CountsEqualSuccessfulSends ==
  (variant = "web" /\ pc = "frame") => shape_counts = ok_sends

\* C2: as long as the last successful send, of a shape at time t, has not
\* been cancelled by a DONE or READY line read by a poll (or by a reset), the
\* actuator is ready exactly when the clock has reached t plus the shape's
\* estimated duration (10 for a circle, 20 for a square or a triangle).
C2_BusyForEstimatedDuration ==
  last_send.shape # None =>
    (is_arduino_ready(clock, arduino_busy_until)
       <=> clock >= last_send.t + (IF last_send.shape = "circle" THEN 10 ELSE 20))

\* C3: in simulated mode a send writes nothing to the transport, returns
\* success and sets busy_until to the time of the send plus the estimated
\* duration of the shape.
C3_SimulatedSendSetsBusyUntil ==
  (Simulated /\ sent # None /\ last_send.shape # None) =>
    /\ sent = "ok"
    /\ wire = <<>>
    /\ arduino_busy_until = last_send.t + processing_time(last_send.shape)

\* C4: from an empty window, with no cooldown in force for the label, the
\* k-th consecutive add_detection of the same label (k <= threshold) returns
\* stable exactly when k = threshold.
C4_ConfirmedOnThresholdCall ==
  [][\A x \in Confirmable :
       LET q == stabilizer.recent_detections
       IN  ( /\ ObserveCall(x)
             /\ Len(q) < threshold
             /\ AllSame(q, x)
             /\ ~(stabilizer.last_confirmed = x
                    /\ clock - stabilizer.confirmation_time < cooldown) )
           => (is_stable' <=> Len(q) = threshold - 1)]_vars

\* C4 witness: the threshold-th consecutive call has just confirmed the label.
C4_Witness ==
  /\ is_stable
  /\ shape \in Confirmable
  /\ Len(stabilizer.recent_detections) = threshold
  /\ AllSame(stabilizer.recent_detections, shape)

\* a call add_detection(x) made while x is the last confirmed label and less
\* than cooldown seconds have passed returns not stable and leaves
\* last_confirmed and confirmation_time alone
CooldownBlocks(x) ==
  ( /\ ObserveCall(x)
    /\ stabilizer.last_confirmed = x
    /\ clock - stabilizer.confirmation_time < cooldown )
  => /\ ~is_stable'
     /\ stabilizer'.last_confirmed = stabilizer.last_confirmed
     /\ stabilizer'.confirmation_time = stabilizer.confirmation_time

\* C5 (as stated): a call in cooldown confirms nothing and leaves
\* last_confirmed and confirmation_time alone, and two confirmations of the
\* same label are never less than cooldown seconds apart, whatever calls of
\* add_detection and reset come between them.
C5_SameLabelNeverWithinCooldown ==
  [][\A x \in Confirmable :
       /\ CooldownBlocks(x)
       /\ (ObserveCall(x) /\ is_stable' /\ conf_times[x] >= 0)
            => clock - conf_times[x] >= cooldown]_vars

\* C5 (amended): a call in cooldown confirms nothing and leaves last_confirmed
\* and confirmation_time alone, and two confirmations of the same label with
\* no confirmation of another label between them are never less than cooldown
\* seconds apart.
C5_ConsecutiveSameLabelApart ==
  [][\A x \in Confirmable :
       /\ CooldownBlocks(x)
       /\ (ObserveCall(x) /\ is_stable' /\ last_conf.shape = x)
            => clock - last_conf.t >= cooldown]_vars

\* C5 witness: a call in cooldown was refused although the trailing entries
\* of the window all equal the label.
C5_Witness ==
  /\ shape \in Confirmable
  /\ ~is_stable
  /\ stabilizer.last_confirmed = shape
  /\ clock - stabilizer.confirmation_time < cooldown
  /\ TrailingAll(stabilizer.recent_detections, shape)

\* C6: a send that returns failure leaves arduino_busy_until as it was; a
\* send changes it only when it returns success.
C6_FailedSendKeepsBusyUntil ==
  [][SendCall =>
       /\ sent' = "fail" => arduino_busy_until' = arduino_busy_until
       /\ arduino_busy_until' # arduino_busy_until => sent' = "ok"]_vars

\* C6 witness: a send has failed after its byte was written, and
\* arduino_busy_until is still what it was.
C6_Witness ==
  /\ sent = "fail"
  /\ wire # <<>>
  /\ arduino_busy_until = 0

\* C7 (as stated): after a failed send for a confirmed label, a detection
\* attempt that observes the same label with the window still satisfying the
\* threshold confirms it again.
C7_RetryAtNextAttempt ==
  [][\A x \in Confirmable :
       ( /\ DetectCall(x)
         /\ failed_send.shape = x
         /\ TrailingAll(stabilizer'.recent_detections, x) )
       => is_stable']_vars

\* C7 (amended): after a failed send for a label confirmed at time t, a
\* detection attempt that observes the same label with the window still
\* satisfying the threshold confirms it again, and goes on to the send,
\* exactly when at least cooldown seconds have passed since t.
C7_RetryAfterCooldown ==
  [][\A x \in Confirmable :
       ( /\ DetectCall(x)
         /\ failed_send.shape = x
         /\ TrailingAll(stabilizer'.recent_detections, x) )
       => /\ is_stable' <=> clock - failed_send.t >= cooldown
          /\ is_stable' => pc' \in {"count", "send"}]_vars

\* C7 witness: the label whose send failed has been confirmed again and the
\* loop is about to send it.
C7_Witness ==
  /\ pc \in {"count", "send"}
  /\ is_stable
  /\ failed_send.shape = shape
  /\ clock - failed_send.t >= cooldown

\* C8: when handle_reset_counts has made its writes, the three counts are 0,
\* the actuator is ready and the window is empty, and the events it then
\* emits are one count_update with the zeroed counts and one shape_update.
C8_ResetLeavesZeroedState ==
  [][/\ (rpc = "busy" /\ rpc' = "emit") =>
          /\ shape_counts' = ZeroCounts
          /\ is_arduino_ready(clock', arduino_busy_until')
          /\ stabilizer'.recent_detections = <<>>
     /\ (rpc = "emit" /\ rpc' = "done") =>
          reset_emitted' = <<CountUpdate(ZeroCounts), ShapeUpdate("none")>>]_vars

\* C9: in every iteration the status is polled before readiness is evaluated
\* and readiness before the detection attempt; add_detection and the send are
\* called only in an iteration that polled and then found the actuator ready.
C9_PollReadyDetectOrder ==
  /\ pc \in {"ready", "busy", "detect", "count", "send"} => polled
  /\ pc = "ready" => ~arduino_ready
  /\ pc \in {"detect", "count", "send"} => arduino_ready
  /\ (shape # None \/ sent # None) => (polled /\ arduino_ready)

\* C9 witness: an iteration that polled and found the actuator ready has
\* observed a shape and sent its command.
C9_Witness ==
  /\ shape \in Confirmable
  /\ sent = "ok"
  /\ polled
  /\ arduino_ready

\* C10: the counts and the stabilizer each have one writing context, and no
\* poll or send of the loop runs while the reset control is between its
\* writes.
C10_SingleWriterSerialized ==
  /\ [](Cardinality(writers.counts) <= 1 /\ Cardinality(writers.stab) <= 1)
  /\ [][rpc = "busy" => ~(SendCall \/ (pc = "frame" /\ pc' = "ready"))]_vars

\* this step of SpecLink is a call of read_arduino_messages
PollCall == shape' = None /\ sent' = None /\ clock' = clock /\ wire' = wire

\* the text, trimmed of the white space around it, is exactly word
TrimsTo(text, word) ==
  \E i \in 1..Len(text) :
    /\ i + Len(word) - 1 <= Len(text)
    /\ SubSeq(text, i, i + Len(word) - 1) = word
    /\ \A k \in 1..Len(text) :
         (k < i \/ k > i + Len(word) - 1) => text[k] \in {" ", "\t", "\r", "\n"}

\* the line, as decoded, trims to DONE or to READY
StatusLine(line) ==
  \/ TrimsTo(Decode(line), <<"D", "O", "N", "E">>)
  \/ TrimsTo(Decode(line), <<"R", "E", "A", "D", "Y">>)

\* C11: a read changes arduino_busy_until only when one of the lines it
\* reads, trimmed, is exactly DONE or exactly READY; every other line (an
\* empty one, one with "detected - processing", another case, other
\* characters around the word) leaves it alone, and the link stays up.
C11_OnlyStatusLinesChangeBusy ==
  [][PollCall =>
       /\ (\A i \in 1..Len(lines_read') : ~StatusLine(lines_read'[i]))
            => arduino_busy_until' = arduino_busy_until
       /\ arduino_busy_until' # arduino_busy_until
            => (\E i \in 1..Len(lines_read') : StatusLine(lines_read'[i]))
       /\ serial_connected' = serial_connected]_vars

\* C11 witness: a read of a line that is no status line has left a running
\* estimate alone.
C11_Witness ==
  /\ lines_read # <<>>
  /\ \A i \in 1..Len(lines_read) : ~StatusLine(lines_read[i])
  /\ last_send.shape # None
  /\ arduino_busy_until > clock

\* C12: a read made at time now, while the estimate of a send is still
\* running, that meets a DONE or READY line sets arduino_busy_until to now.
C12_StatusLineSetsBusyToNow ==
  [][( /\ PollCall
       /\ arduino_busy_until > clock
       /\ \E i \in 1..Len(lines_read') : StatusLine(lines_read'[i]) )
       => arduino_busy_until' = clock]_vars

\* C13: the window never holds more than window_size entries, a call on a
\* full window drops the oldest entry, and the call confirms exactly when no
\* cooldown is in force for the label and the last threshold entries of the
\* window all equal it: older entries have no say.
C13_DecisionFromTrailingWindow ==
  /\ [](Len(stabilizer.recent_detections) <= window_size)
  /\ [][\A x \in Confirmable :
          LET q == stabilizer.recent_detections
          IN  ObserveCall(x) =>
                /\ Len(q) = window_size
                     => stabilizer'.recent_detections = Append(Tail(q), x)
                /\ is_stable' <=>
                     /\ ~(stabilizer.last_confirmed = x
                            /\ clock - stabilizer.confirmation_time < cooldown)
                     /\ TrailingAll(stabilizer'.recent_detections, x)]_vars

\* C13 witness: a full window whose oldest entry is another label has
\* confirmed the label of its last threshold entries.
C13_Witness ==
  /\ is_stable
  /\ Len(stabilizer.recent_detections) = window_size
  /\ stabilizer.recent_detections[1] # shape
  /\ TrailingAll(stabilizer.recent_detections, shape)

\* the command character the protocol gives a label
CommandOf(label) ==
  CASE label = "circle" -> "c"
    [] label = "square" -> "s"
    [] label = "triangle" -> "t"

\* C14 (as stated): only the send writes; it is called with the circle,
\* square or triangle just confirmed, writes nothing but the command of that
\* label, and writes exactly one byte whenever it returns success.
C14_SuccessfulSendWritesOneByte ==
  [][/\ SendCall =>
          /\ shape \in Confirmable
          /\ shape = last_conf.shape
          /\ wire' \in {wire, Append(wire, CommandOf(shape))}
          /\ sent' = "ok" => wire' = Append(wire, CommandOf(shape))
     /\ ~SendCall => wire' = wire]_vars

\* C14: only the send writes; it is called with the circle, square or
\* triangle just confirmed and writes nothing but the command of that label;
\* when it returns success it has written exactly one byte if the port is
\* open, and none if the program runs without a port.
C14_SuccessfulSendOnOpenPortWritesOneByte ==
  [][/\ SendCall =>
          /\ shape \in Confirmable
          /\ shape = last_conf.shape
          /\ wire' \in {wire, Append(wire, CommandOf(shape))}
          /\ sent' = "ok" =>
               wire' = IF Simulated THEN wire
                                    ELSE Append(wire, CommandOf(shape))
     /\ ~SendCall => wire' = wire]_vars

\* C14 witness: a send over the open port has returned success and the last
\* byte on the wire is the command of the confirmed label.
C14_Witness ==
  /\ pc = "end"
  /\ sent = "ok"
  /\ ~Simulated
  /\ shape = last_conf.shape
  /\ wire # <<>>
  /\ wire[Len(wire)] = CommandOf(shape)

\* the events of one kind among those the loop has emitted in this iteration
EmittedOf(kind) ==
  {i \in 1..Len(emitted) : emitted[i].name = kind}

FrameFault ==
  /\ pc = "frame"
  /\ ~polled'
  /\ rpc' = rpc
  /\ clock' = clock

\* C16: a tick whose frame cannot be read leaves the loop running, at the
\* start of its next tick, and leaves the stabilizer, the counts and
\* arduino_busy_until as they were.
C16_FrameFaultLoopContinues ==
  [][FrameFault =>
       /\ pc' = "frame"
       /\ UNCHANGED <<stabilizer, shape_counts, arduino_busy_until>>]_vars

\* the first rule of the ordered list that matches the descriptors d:
\* reject, strict triangle, relaxed triangle, square or rectangle, relaxed
\* square, circle, fallback circle, final fallback, otherwise unknown
FirstMatch(d) ==
  LET v == d.vertices
      e == d.extent
      ar == d.aspect_ratio
      c == d.circularity
      so == d.solidity
      rule1 == e < 25 \/ so < 70
      rule2 == v = 3 /\ 30 <= e /\ e <= 85 /\ 40 <= ar /\ ar <= 200
      rule3 == v <= 4 /\ c < 60 /\ so > 80 /\ 40 <= ar /\ ar <= 180 /\ e < 70
      rule4 == v = 4 /\ 60 <= e /\ e <= 95
      rule4sq == rule4 /\ 75 <= ar /\ ar <= 135
      rule4re == rule4 /\ ~rule4sq /\ 40 <= ar /\ ar <= 250
      rule5 == 80 <= ar /\ ar <= 125 /\ e > 70 /\ c < 80
      rule6 == (v >= 6 \/ c > 70) /\ c > 60 /\ so > 80
      rule7 == c > 75
      rule8tr == v <= 4 /\ c < 50 /\ e < 70
      rule8sq == v <= 4 /\ ~rule8tr /\ 70 <= ar /\ ar <= 130 /\ e > 60
  IN  IF rule1 THEN "unknown"
      ELSE IF rule2 \/ rule3 THEN "triangle"
      ELSE IF rule4sq THEN "square"
      ELSE IF rule4re THEN "rectangle"
      ELSE IF rule5 THEN "square"
      ELSE IF rule6 \/ rule7 THEN "circle"
      ELSE IF rule8tr THEN "triangle"
      ELSE IF rule8sq THEN "square"
      ELSE "unknown"

\* C17: the label classify returns for a contour's descriptors is one of
\* circle, square, rectangle, triangle and unknown, and is the label of the
\* first rule of the ordered list that matches; three vertices, extent 0.5,
\* aspect ratio 1.0, circularity 0.5, solidity 0.85 give triangle, and four
\* vertices, extent 0.8, aspect ratio 1.0, circularity 0.75, solidity 0.9
\* give square.
C17_ClassifyIsFirstMatch ==
  classified # None =>
    /\ classified \in Labels
    /\ classified = FirstMatch(contour)
    /\ contour = [vertices |-> 3, extent |-> 50, aspect_ratio |-> 100,
                  circularity |-> 50, solidity |-> 85]
         => classified = "triangle"
    /\ contour = [vertices |-> 4, extent |-> 80, aspect_ratio |-> 100,
                  circularity |-> 75, solidity |-> 90]
         => classified = "square"

\* C17 witness: the four-vertex contour of the second scenario has been
\* classified as a square.
C17_Witness ==
  /\ contour = [vertices |-> 4, extent |-> 80, aspect_ratio |-> 100,
                circularity |-> 75, solidity |-> 90]
  /\ classified = "square"

\* C18: descriptors with extent below 0.25 or solidity below 0.70 are
\* classified unknown, whatever the vertex count, the aspect ratio and the
\* circularity.
C18_PoorShapeIsUnknown ==
  (classified # None /\ (contour.extent < 25 \/ contour.solidity < 70))
    => classified = "unknown"

\* C18 witness: a contour that passes every test of a square but has
\* solidity 0.69 has been classified unknown.
C18_Witness ==
  /\ classified = "unknown"
  /\ contour.vertices = 4
  /\ contour.extent = 80
  /\ contour.aspect_ratio = 100
  /\ contour.solidity = 69

\* this step of SpecStabilizer is a call of reset()
ResetCall ==
  /\ shape' = None
  /\ clock' = clock

\* C19: reset() empties the window and leaves last_confirmed and
\* confirmation_time as they were; so whatever resets came in between, a call
\* with the label of the last confirmation, made less than cooldown after
\* that confirmation, confirms nothing.
C19_ResetKeepsCooldown ==
  [][/\ ResetCall =>
          /\ stabilizer'.recent_detections = <<>>
          /\ stabilizer'.last_confirmed = stabilizer.last_confirmed
          /\ stabilizer'.confirmation_time = stabilizer.confirmation_time
     /\ \A x \in Confirmable :
          ( /\ ObserveCall(x)
            /\ last_conf.shape = x
            /\ clock < last_conf.t + cooldown )
          => ~is_stable']_vars

\* C19 witness: after a confirmation and a reset, the window holds threshold
\* fresh observations of the confirmed label, within the cooldown, and the
\* last call has confirmed nothing.
C19_Witness ==
  /\ shape \in Confirmable
  /\ ~is_stable
  /\ Len(stabilizer.recent_detections) = threshold
  /\ AllSame(stabilizer.recent_detections, shape)
  /\ last_conf.shape = shape
  /\ stabilizer.last_confirmed = shape
  /\ clock < stabilizer.confirmation_time + cooldown

\* C20 (as stated): a send that returns success empties the window and sets
\* last_detection_time to the time of the attempt; a send that fails leaves
\* the window and last_detection_time as they were.
C20_ResetAndTimestampOnlyOnSuccess ==
  [][SendCall =>
       /\ sent' = "ok" =>
            /\ stabilizer'.recent_detections = <<>>
            /\ last_detection_time' = current_time
       /\ sent' = "fail" =>
            /\ stabilizer' = stabilizer
            /\ last_detection_time' = last_detection_time]_vars

\* C20: a send that returns success empties the window, a send that fails
\* leaves the stabilizer as it was, and in both cases last_detection_time is
\* set to the time of the attempt.
C20_ResetOnlyOnSuccess ==
  [][SendCall =>
       /\ sent' = "ok" =>
            /\ stabilizer'.recent_detections = <<>>
            /\ stabilizer'.last_confirmed = stabilizer.last_confirmed
            /\ stabilizer'.confirmation_time = stabilizer.confirmation_time
       /\ sent' = "fail" => stabilizer' = stabilizer
       /\ last_detection_time' = current_time]_vars

\* C20 witness: the send of a confirmed label has failed, the window still
\* holds the observations that confirmed it, and last_detection_time is the
\* time of this attempt.
C20_Witness ==
  /\ pc = "end"
  /\ is_stable
  /\ sent = "fail"
  /\ Len(stabilizer.recent_detections) >= threshold
  /\ TrailingAll(stabilizer.recent_detections, shape)
  /\ last_detection_time = current_time

\* this step of the loop belongs to a tick that found the actuator not ready
BusyTickStep ==
  /\ pc' # pc
  /\ \/ pc = "ready" /\ pc' = "busy"
     \/ pc = "busy"
     \/ pc = "end" /\ ~arduino_ready

\* this step is the reset key read at the end of a tick of the
\* command-line program
ManualReset ==
  /\ variant = "cli"
  /\ pc = "end"
  /\ pc' = "frame"
  /\ arduino_busy_until' = 0
  /\ stabilizer' = [stabilizer EXCEPT !.recent_detections = <<>>]

\* C21: a tick that finds the actuator not ready goes from the readiness test
\* to the busy status and to the end of the tick; it classifies nothing, calls
\* neither add_detection nor the send, and none of its steps changes the
\* stabilizer, the counts, last_detection_time, arduino_busy_until or the
\* bytes on the wire (the reset key read at the end of a command-line tick
\* apart).
C21_BusyTickSkipsDetection ==
  /\ []((pc = "busy" \/ (pc = "end" /\ ~arduino_ready)) =>
          /\ shape = None
          /\ sent = None
          /\ ~is_stable
          /\ emitted = <<>>)
  /\ [][BusyTickStep =>
          /\ pc = "busy" => pc' = "end"
          /\ ManualReset \/
               UNCHANGED <<stabilizer, shape_counts, last_detection_time,
                           arduino_busy_until, wire>>]_vars

\* C21 witness: a tick ends that found the actuator busy with the command on
\* the wire, some seconds of the estimate remaining.
C21_Witness ==
  /\ pc = "end"
  /\ ~arduino_ready
  /\ remaining > 0
  /\ wire # <<>>
  /\ stabilizer.last_confirmed # None
  /\ last_detection_time < current_time

\* this step of Spec is a detection attempt of the loop
AttemptStep == pc = "detect" /\ pc' # pc

\* C22: the window holds nothing but circle, square and triangle, and
\* last_confirmed is None or one of them; an attempt that classifies one of
\* the three appends it to the window, and an attempt that classifies
\* rectangle or unknown, or finds no contour, leaves the stabilizer as it
\* was.
C22_OnlyConfirmableObserved ==
  /\ [](/\ \A i \in 1..Len(stabilizer.recent_detections) :
             stabilizer.recent_detections[i] \in Confirmable
        /\ stabilizer.last_confirmed \in Confirmable \cup {None})
  /\ [][AttemptStep =>
          IF classified' \in Confirmable
            THEN stabilizer'.recent_detections =
                   DequeAppend(stabilizer.recent_detections, classified')
            ELSE stabilizer' = stabilizer]_vars

\* C22 witness: an attempt has classified rectangle or unknown and the window
\* still holds its run of identical labels, one short of the threshold.
C22_Witness ==
  /\ pc = "end"
  /\ classified \in {"rectangle", "unknown"}
  /\ Len(stabilizer.recent_detections) = threshold - 1
  /\ AllSame(stabilizer.recent_detections, stabilizer.recent_detections[1])

\* C23 (as stated), for the call whose time the stabilizer keeps: a call of
\* add_detection is made at least detect_interval after the call that made
\* the last confirmation.
C23_ObserveCallsApart ==
  [][(AttemptStep /\ classified' \in Confirmable
        /\ stabilizer.last_confirmed # None)
       => clock - stabilizer.confirmation_time >= detect_interval]_vars

\* C23: an attempt is made only in a tick that found the actuator ready and
\* whose timestamp current_time is more than detect_interval after
\* last_detection_time, the timestamp of the tick of the attempt before; the
\* tick of an attempt leaves its timestamp in last_detection_time, and a
\* ready tick that comes too early classifies nothing and calls nothing.
C23_AttemptTicksApart ==
  /\ [](pc \in {"detect", "count", "send"} => arduino_ready)
  /\ []((pc = "end" /\ (classified # None \/ shape # None))
          => last_detection_time = current_time)
  /\ [][AttemptStep =>
          IF current_time - last_detection_time > detect_interval
            THEN pc' = "end" => last_detection_time' = current_time
            ELSE /\ pc' = "end"
                 /\ classified' = None
                 /\ UNCHANGED <<stabilizer, shape, is_stable,
                                last_detection_time>>]_vars

\* C23 witness: a second attempt has been made, in a tick stamped more than
\* detect_interval after the tick of a confirmation.
C23_Witness ==
  /\ pc = "end"
  /\ classified \in Confirmable
  /\ last_conf.shape # None
  /\ last_detection_time = current_time
  /\ current_time > last_conf.t + detect_interval

\* C24: when a tick has shown the busy status, the remaining time it
\* computed, arduino_busy_until - current_time, is more than 0 and at most
\* the longest estimate.
C24_RemainingPositiveAndBounded ==
  (pc = "end" /\ ~arduino_ready) =>
    /\ remaining > 0
    /\ remaining <= other_time

\* C25: a send over the port that returns success while the last successful
\* send, of a shape s1 at time t1, has been followed by no DONE or READY line
\* read and by no manual reset, is made at t1 + 10 or later when s1 is a
\* circle, and at t1 + 20 or later when it is a square or a triangle.
C25_NoSendInsideBusyWindow ==
  [][(SendCall /\ sent' = "ok" /\ ~Simulated /\ last_send.shape # None)
       => clock >= last_send.t + (IF last_send.shape = "circle"
                                    THEN circle_time ELSE other_time)]_vars

\* C25 witness: a second confirmation is at the send, the estimate of the
\* first command having run out with no DONE or READY line read and no reset.
C25_Witness ==
  /\ pc = "send"
  /\ is_stable
  /\ last_send.shape # None
  /\ wire # <<>>
  /\ arduino_busy_until = last_send.t + processing_time(last_send.shape)
  /\ clock >= arduino_busy_until

\* C26: with the arm at the other end of the port and no reset key pressed,
\* the program writes no byte while the arm is still moving for a command
\* written before.
C26_NoByteWhileActuatorMoves ==
  [][Len(wire') > Len(wire)
       => ~(actuator.moving /\ clock < actuator.until)]_vars

====
